---- MODULE Spec2Model ----
(***************************************************************************)
(* A model of zizmor's known-vulnerable-actions audit                      *)
(* (src/audit/known_vulnerable_actions.rs) and of the tree-sitter based    *)
(* Locator (src/finding/locate.rs).                                        *)
(*                                                                         *)
(* Text is modelled at two grains.  Strings the program takes apart (the   *)
(* `uses:` reference, git refs, tag names) are tuples of one-character     *)
(* strings.  The workflow document is a sequence of lines, each with its   *)
(* indentation, an optional leading "- ", a key and a scalar value; a      *)
(* node's source text is the run of lines it spans, cut at its first       *)
(* column.  Option<T> is a tuple of length 0 (None) or 1 (Some).           *)
(***************************************************************************)
EXTENDS Integers, Sequences, FiniteSets, TLC

\* ------------------------------------------------------------------ bounds

\* Steps per generated job.
MaxSteps == 2
\* Advisories one advisory query returns.
MaxAdv == 2

\* ------------------------------------------------------------ Option, text

None == <<>>
Some(x) == <<x>>
IsSome(o) == Len(o) = 1
Unwrap(o) == o[1]

Max(S) == CHOOSE x \in S : \A y \in S : y <= x
Min(S) == CHOOSE x \in S : \A y \in S : x <= y

\* Positions of character ch in the text s.
Positions(s, ch) == {i \in 1..Len(s) : s[i] = ch}

\* str::rsplit_once: Some(<<before, after>>) around the last ch, or None.
rsplit_once(s, ch) ==
    IF Positions(s, ch) = {} THEN None
    ELSE LET p == Max(Positions(s, ch))
         IN Some(<<SubSeq(s, 1, p - 1), SubSeq(s, p + 1, Len(s))>>)

\* str::splitn(3, ch): at most three pieces, the last one unsplit.
splitn3(s, ch) ==
    LET P == Positions(s, ch)
    IN IF P = {} THEN <<s>>
       ELSE LET p1 == Min(P)
                Q == {p \in P : p > p1}
            IN IF Q = {} THEN <<SubSeq(s, 1, p1 - 1), SubSeq(s, p1 + 1, Len(s))>>
               ELSE LET p2 == Min(Q)
                    IN <<SubSeq(s, 1, p1 - 1), SubSeq(s, p1 + 1, p2 - 1),
                         SubSeq(s, p2 + 1, Len(s))>>

HexDigits == {"0", "1", "2", "3", "4", "5", "6", "7", "8", "9",
              "a", "b", "c", "d", "e", "f"}

\* Length of an exact commit identifier (a SHA-1 in hexadecimal).
ShaLen == 40

\* ------------------------------------------------------------ models::Uses

\* Uses::from_step: owner/repo[/path][@ref]; None when there is no owner/repo.
from_step(s) ==
    LET sp == rsplit_once(s, "@")
        path == IF IsSome(sp) THEN Unwrap(sp)[1] ELSE s
        git_ref == IF IsSome(sp) THEN Some(Unwrap(sp)[2]) ELSE None
        components == splitn3(path, "/")
    IN IF Len(components) < 2 THEN None
       ELSE Some([owner |-> components[1], repo |-> components[2],
                  git_ref |-> git_ref])

\* Uses::ref_is_commit: the ref is a full-length hexadecimal commit identifier.
ref_is_commit(uses) ==
    /\ IsSome(uses.git_ref)
    /\ Len(Unwrap(uses.git_ref)) = ShaLen
    /\ \A i \in 1..Len(Unwrap(uses.git_ref)) : Unwrap(uses.git_ref)[i] \in HexDigits

\* ------------------------------------------------- the workflow document

\* One line of the document: `ind` spaces, then "- " when `dash`, then either
\* a comment (`cmt`) or `key: val`; `quoted` when the key is written in quotes.
\* An empty `val` means the value is the block on the following lines.
Line(ind, dash, quoted, key, val) ==
    [ind |-> ind, dash |-> dash, cmt |-> FALSE, quoted |-> quoted,
     key |-> key, val |-> val]
Comment(ind) ==
    [ind |-> ind, dash |-> FALSE, cmt |-> TRUE, quoted |-> FALSE,
     key |-> "", val |-> <<>>]

\* Column at which the key of a line starts.
KeyCol(l) == IF l.dash THEN l.ind + 2 ELSE l.ind

\* Last content line of the block that starts on line i at column c: the
\* lines after i that are indented deeper than c.  Comments are extras and
\* never end a node, so a trailing comment is outside it.
Extent(raw, i, c) ==
    Max({i} \cup {j \in (i + 1)..Len(raw) :
                    /\ ~raw[j].cmt
                    /\ \A k \in (i + 1)..j : raw[k].cmt \/ raw[k].ind > c})

\* Content lines inside the block of the pair on line i.
Inner(raw, i) ==
    {j \in (i + 1)..Extent(raw, i, KeyCol(raw[i])) : ~raw[j].cmt}

\* Kind of the value node of the pair on line i.
ValueKind(raw, i) ==
    IF raw[i].val # <<>> THEN "flow_node"
    ELSE IF Inner(raw, i) = {} THEN "null"
    ELSE IF raw[Min(Inner(raw, i))].dash THEN "block_sequence"
    ELSE "block_mapping"

\* The pairs of the block mapping that is the value of the pair on line i.
ChildPairs(raw, i) ==
    IF ValueKind(raw, i) # "block_mapping" THEN {}
    ELSE {j \in Inner(raw, i) :
            ~raw[j].dash /\ raw[j].ind = raw[Min(Inner(raw, i))].ind}

\* The items of the block sequence that is the value of the pair on line i.
SeqItems(raw, i) ==
    IF ValueKind(raw, i) # "block_sequence" THEN {}
    ELSE {j \in Inner(raw, i) :
            raw[j].dash /\ raw[j].ind = raw[Min(Inner(raw, i))].ind}

\* The pairs of the block mapping inside the sequence item on line i.
ItemPairs(raw, i) ==
    {i} \cup {j \in (i + 1)..Extent(raw, i, raw[i].ind) :
                ~raw[j].cmt /\ ~raw[j].dash /\ raw[j].ind = raw[i].ind + 2}

\* A finite set of naturals as the sequence of its elements in rising order.
RECURSIVE Sorted(_)
Sorted(S) == IF S = {} THEN <<>> ELSE <<Min(S)>> \o Sorted(S \ {Min(S)})

\* Source text of the node that starts on line i at column c and ends with
\* line j: the lines, the first one cut at the node's first column.
Text(raw, i, c, j) ==
    [k \in 1..(j - i + 1) |->
        IF k = 1
        THEN [raw[i] EXCEPT !.ind = 0, !.dash = raw[i].dash /\ c = raw[i].ind]
        ELSE raw[i + k - 1]]

\* ------------------------------------- models::Workflow (structural model)

\* The top-level pairs of the document.
TopPairs(raw) == {i \in 1..Len(raw) : ~raw[i].cmt /\ ~raw[i].dash /\ raw[i].ind = 0}

\* The entries of the top-level `jobs` mapping, as line numbers.
JobEntries(raw) ==
    UNION {ChildPairs(raw, i) : i \in {t \in TopPairs(raw) : raw[t].key = "jobs"}}

\* Deserialising a mapping with a repeated key keeps the key's first position
\* and its last value: the line that defines job `id`.
JobLine(raw, id) == Max({j \in JobEntries(raw) : raw[j].key = id})

\* One step of a job: its body and the line its sequence item starts on.
Step(raw, i) ==
    LET U == {j \in ItemPairs(raw, i) : raw[j].key = "uses"}
    IN [line |-> i,
        body |-> IF U = {} THEN [kind |-> "Run", uses |-> <<>>]
                 ELSE [kind |-> "Uses", uses |-> raw[Min(U)].val]]

\* The job defined on line q: a NormalJob has steps, a reusable workflow call
\* job has a job-level `uses`.  Steps are in document order, unfiltered.
JobModel(raw, q) ==
    LET S == {j \in ChildPairs(raw, q) : raw[j].key = "steps"}
        items == IF S = {} THEN <<>> ELSE Sorted(SeqItems(raw, Min(S)))
    IN [id |-> raw[q].key,
        kind |-> IF S = {} THEN "ReusableWorkflowCallJob" ELSE "NormalJob",
        steps |-> [k \in 1..Len(items) |-> Step(raw, items[k])]]

\* The jobs of the document, in document order of their ids.
Document(raw) ==
    LET firsts == {j \in JobEntries(raw) :
                     \A k \in JobEntries(raw) : raw[k].key = raw[j].key => j <= k}
        order == Sorted(firsts)
    IN [n \in 1..Len(order) |-> JobModel(raw, JobLine(raw, raw[order[n]].key))]

\* Workflow::from_file: the raw text and the document deserialised from it
\* (the syntax tree is a function of the raw text, see the Locator).
Workflow(raw) == [raw |-> raw, document |-> Document(raw)]

\* Workflow::jobs.
jobs(workflow) == workflow.document

\* Step::location: the job's id and the step's index in Job::steps (from 0).
StepLocation(job, k) == [job |-> Some([id |-> job.id, step |-> Some(k - 1)])]

\* ------------------------------------------------------ generated workflows

ActionPath == <<"a", "/", "b">>
RefV2 == <<"v", "2">>
TagV201 == <<"v", "2", ".", "0", ".", "1">>
Sha1 == [i \in 1..ShaLen |-> "c"]
Sha2 == [i \in 1..ShaLen |-> "d"]

StepKinds == {"run", "noref", "sym", "sha", "bad"}

\* The lines of one step, its sequence item at column `ind`.
StepLines(kind, ind) ==
    CASE kind = "run" -> <<Line(ind, TRUE, FALSE, "run", <<"m">>)>>
      [] kind = "noref" -> <<Line(ind, TRUE, FALSE, "uses", ActionPath)>>
      [] kind = "sym" ->
            <<Line(ind, TRUE, FALSE, "name", <<"n">>),
              Line(ind + 2, FALSE, FALSE, "uses", ActionPath \o <<"@">> \o RefV2)>>
      [] kind = "sha" ->
            <<Line(ind, TRUE, FALSE, "uses", ActionPath \o <<"@">> \o Sha1)>>
      [] kind = "bad" -> <<Line(ind, TRUE, FALSE, "uses", <<"x">>)>>

\* Steps k.. of a list, a comment line after step `cmt` (0: no comment).
RECURSIVE StepsLines(_, _, _)
StepsLines(steps, k, cmt) ==
    IF k > Len(steps) THEN <<>>
    ELSE StepLines(steps[k], 6)
         \o (IF k = cmt THEN <<Comment(6)>> ELSE <<>>)
         \o StepsLines(steps, k + 1, cmt)

\* A job: a normal job with its steps, or a reusable workflow call.
JobLines(job) ==
    <<Line(2, FALSE, job.quoted, job.id, <<>>)>>
    \o (IF job.steps = <<>>
        THEN <<Line(4, FALSE, FALSE, "uses", <<".", "/", "w">>)>>
        ELSE <<Line(4, FALSE, FALSE, "runs-on", <<"u">>),
               Line(4, FALSE, FALSE, "steps", <<>>)>>
             \o StepsLines(job.steps, 1, job.cmt))

RECURSIVE JobsLines(_, _)
JobsLines(js, k) ==
    IF k > Len(js) THEN <<>> ELSE JobLines(js[k]) \o JobsLines(js, k + 1)

Render(js) ==
    Workflow(<<Line(0, FALSE, FALSE, "on", <<"p">>),
               Line(0, FALSE, FALSE, "jobs", <<>>)>> \o JobsLines(js, 1))

JobPlan(id, quoted, steps, cmt) ==
    [id |-> id, quoted |-> quoted, steps |-> steps, cmt |-> cmt]

StepLists(kinds) == UNION {[1..n -> kinds] : n \in 1..MaxSteps}

\* Workflows for the audit: job `test` with every list of steps, after a
\* reusable workflow call job or before a second normal job.
AuditWorkflows ==
    {Render(<<JobPlan("call", FALSE, <<>>, 0), JobPlan("test", FALSE, s, 0)>>) :
        s \in StepLists(StepKinds)}
    \cup
    {Render(<<JobPlan("test", FALSE, s, 0), JobPlan("build", FALSE, <<"sym">>, 0)>>) :
        s \in StepLists(StepKinds)}

\* Workflows for the locator: comments between steps, a quoted job key, a
\* job id that is defined twice.
LocWorkflows ==
    {Render(<<JobPlan("test", q, s, c)>> \o tail) :
        q \in BOOLEAN,
        s \in StepLists({"run", "sym"}),
        c \in 0..(MaxSteps - 1),
        tail \in {<<>>, <<JobPlan("test", FALSE, <<"sym", "run">>, 0)>>}}

\* ------------------------------------------------------ github_api::Client

\* The remote: the refs and tags of the action's repository (name, commit)
\* and the advisories the advisory source holds against one version.
AdvisoryPool ==
    <<[severity |-> "high", ghsa_id |-> "GHSA-1"],
      [severity |-> "low", ghsa_id |-> "GHSA-2"],
      [severity |-> "critical", ghsa_id |-> "GHSA-3"],
      [severity |-> "medium", ghsa_id |-> "GHSA-4"],
      [severity |-> "moderate", ghsa_id |-> "GHSA-5"]>>

\* n advisories of the pool, from the one at `start` on, cyclically.
Window(start, n) ==
    [k \in 1..n |-> AdvisoryPool[((start + k - 2) % Len(AdvisoryPool)) + 1]]

AdvLists == {Window(st, n) : st \in 1..Len(AdvisoryPool), n \in 0..MaxAdv}

Ref(name, sha) == [name |-> name, sha |-> sha]

\* v2 is a ref of a commit tagged v2 and v2.0.1.
RemoteTagged(adv) ==
    [refs |-> {Ref(RefV2, Sha1)},
     tags |-> {Ref(RefV2, Sha1), Ref(TagV201, Sha1)},
     vulnerable |-> TagV201, adv |-> adv]
\* v2 is a branch whose commit has no tag; no tag points at the pinned commit.
RemoteBranch(adv) ==
    [refs |-> {Ref(RefV2, Sha2)}, tags |-> {}, vulnerable |-> RefV2, adv |-> adv]
\* v2 is no ref of the repository; the pinned commit is tagged v2.
RemoteNoRef(adv) ==
    [refs |-> {}, tags |-> {Ref(RefV2, Sha1)}, vulnerable |-> RefV2, adv |-> adv]

\* The three remotes, each holding the first advisory of the pool.
Remotes ==
    {RemoteTagged(Window(1, 1)), RemoteBranch(Window(1, 1)),
     RemoteNoRef(Window(1, 1))}

\* Client::commit_for_ref: the commit the ref names, if the remote has the ref.
commit_for_ref(remote, owner, repo, git_ref) ==
    LET R == {r \in remote.refs : r.name = git_ref}
    IN IF R = {} THEN None ELSE Some((CHOOSE r \in R : TRUE).sha)

\* Client::longest_tag_for_commit: among the tags that point at the commit,
\* the one with the longest name.
longest_tag_for_commit(remote, owner, repo, sha) ==
    LET T == {t \in remote.tags : t.sha = sha}
    IN IF T = {} THEN None
       ELSE Some(CHOOSE t \in T : \A u \in T : Len(u.name) <= Len(t.name))

\* Client::gha_advisories: the advisories against (owner, repo, version).
gha_advisories(remote, owner, repo, version) ==
    IF version = remote.vulnerable THEN remote.adv ELSE <<>>

\* ------------------------------- KnownVulnerableActions (the version resolver)

\* One remote call, the n-th of the invocation; it fails when n = failAt.
Call(op, uses, arg, n, failAt) ==
    [op |-> op, owner |-> uses.owner, repo |-> uses.repo, arg |-> arg,
     ok |-> n # failAt]

Ok(value, calls, vulns) ==
    [tag |-> "Ok", value |-> value, calls |-> calls, vulns |-> vulns]
Err(calls) == [tag |-> "Err", value |-> <<>>, calls |-> calls, vulns |-> <<>>]

SeverityLowKept(s) ==
    CASE s = "low" -> "Low"
      [] s = "medium" -> "Medium"
      [] s = "high" -> "High"
      [] s = "critical" -> "High"
      [] OTHER -> "Unknown"

\* The match on vuln.severity.
Severity(s) ==
    CASE s = "low" -> "Unknown"
      [] s = "medium" -> "Medium"
      [] s = "high" -> "High"
      [] s = "critical" -> "High"
      [] OTHER -> "Unknown"

\* The advisory query and the mapping of its results.
QueryAdvisories(remote, uses, version, calls, failAt) ==
    LET c == Call("gha_advisories", uses, version, Len(calls) + 1, failAt)
        vulns == gha_advisories(remote, uses.owner, uses.repo, version)
    IN IF ~c.ok THEN Err(calls \o <<c>>)
       ELSE Ok([k \in 1..Len(vulns) |->
                   <<Severity(vulns[k].severity), vulns[k].ghsa_id>>],
               calls \o <<c>>, vulns)

SymbolicRefQueriesShortRef(remote, uses, version, failAt) ==
    LET c1 == Call("commit_for_ref", uses, version, 1, failAt)
        commit_ref == commit_for_ref(remote, uses.owner, uses.repo, version)
    IN IF ~c1.ok THEN Err(<<c1>>)
       ELSE IF commit_ref = None THEN Ok(<<>>, <<c1>>, <<>>)
       ELSE LET c2 == Call("longest_tag_for_commit", uses, Unwrap(commit_ref),
                           2, failAt)
            IN IF ~c2.ok THEN Err(<<c1, c2>>)
               ELSE QueryAdvisories(remote, uses, version, <<c1, c2>>, failAt)

\* The arm for a symbolic ref: ref -> commit -> longest tag, else the ref.
SymbolicRef(remote, uses, version, failAt) ==
    LET c1 == Call("commit_for_ref", uses, version, 1, failAt)
        commit_ref == commit_for_ref(remote, uses.owner, uses.repo, version)
    IN IF ~c1.ok THEN Err(<<c1>>)
       ELSE IF commit_ref = None THEN Ok(<<>>, <<c1>>, <<>>)
       ELSE LET c2 == Call("longest_tag_for_commit", uses, Unwrap(commit_ref),
                           2, failAt)
                tag == longest_tag_for_commit(remote, uses.owner, uses.repo,
                                              Unwrap(commit_ref))
            IN IF ~c2.ok THEN Err(<<c1, c2>>)
               ELSE QueryAdvisories(remote, uses,
                        IF IsSome(tag) THEN Unwrap(tag).name ELSE version,
                        <<c1, c2>>, failAt)

CommitRefQueriesSha(remote, uses, commit_ref, failAt) ==
    LET c1 == Call("longest_tag_for_commit", uses, commit_ref, 1, failAt)
        tag == longest_tag_for_commit(remote, uses.owner, uses.repo, commit_ref)
    IN IF ~c1.ok THEN Err(<<c1>>)
       ELSE QueryAdvisories(remote, uses,
                IF IsSome(tag) THEN Unwrap(tag).name ELSE commit_ref,
                <<c1>>, failAt)

\* The arm for a ref that is a commit: the longest tag of that commit.
CommitRef(remote, uses, commit_ref, failAt) ==
    LET c1 == Call("longest_tag_for_commit", uses, commit_ref, 1, failAt)
        tag == longest_tag_for_commit(remote, uses.owner, uses.repo, commit_ref)
    IN IF ~c1.ok THEN Err(<<c1>>)
       ELSE IF tag = None THEN Ok(<<>>, <<c1>>, <<>>)
       ELSE QueryAdvisories(remote, uses, Unwrap(tag).name, <<c1>>, failAt)

NoRefQueriesDefault(remote, uses, failAt) ==
    QueryAdvisories(remote, uses, <<>>, <<>>, failAt)

\* The arm for no ref at all.
NoRef(remote, uses, failAt) == Ok(<<>>, <<>>, <<>>)

\* KnownVulnerableActions::action_known_vulnerabilities.  The result carries,
\* besides Ok(pairs) or Err, the remote calls made and the advisories received.
action_known_vulnerabilities(remote, uses, failAt) ==
    IF IsSome(uses.git_ref) /\ ~ref_is_commit(uses)
    THEN SymbolicRef(remote, uses, Unwrap(uses.git_ref), failAt)
    ELSE IF IsSome(uses.git_ref)
    THEN CommitRef(remote, uses, Unwrap(uses.git_ref), failAt)
    ELSE NoRef(remote, uses, failAt)

\* Which remote call of one invocation fails (0: none of its at most 3).
FailPoints == 0..3

TokenlessNew(config) ==
    IF config.offline
    THEN [tag |-> "Err", msg |-> "offline audits only requested"]
    ELSE [tag |-> "Ok", config |-> config,
          client |-> [token |-> config.gh_token]]

\* KnownVulnerableActions::new.
new(config) ==
    IF config.offline
    THEN [tag |-> "Err", msg |-> "offline audits only requested"]
    ELSE IF config.gh_token = None
    THEN [tag |-> "Err", msg |-> "can't audit without a GitHub API token"]
    ELSE [tag |-> "Ok", config |-> config,
          client |-> [token |-> Unwrap(config.gh_token)]]

\* ------------------------------------------------------- finding::Locator

\* A pair whose key is the plain scalar `key`.
PlainKey(raw, i, key) == ~raw[i].cmt /\ ~raw[i].quoted /\ raw[i].key = key

\* The (jobs pair, job pair) matches shared by both queries, any depth: a
\* pair keyed `jobs` whose value is a block mapping holding a pair keyed
\* job_name.
JobMatches(raw, job_name) ==
    UNION {{<<p, q>> : q \in {c \in ChildPairs(raw, p) : PlainKey(raw, c, job_name)}} :
           p \in {i \in 1..Len(raw) : PlainKey(raw, i, "jobs")}}

\* The matches of the query ENTIRE_JOB in document order, each the line of
\* the job's pair: the job's value must be a block mapping.
ENTIRE_JOB(raw, job_name) ==
    Sorted({m[2] : m \in {n \in JobMatches(raw, job_name) :
                            ValueKind(raw, n[2]) = "block_mapping"}})

\* The matches of the query ALL_STEPS_FROM_JOB in document order, each the
\* line of the `steps` pair whose value is a block sequence of mappings.
ALL_STEPS_FROM_JOB(raw, job_name) ==
    Sorted(UNION {{r \in ChildPairs(raw, m[2]) :
                     /\ PlainKey(raw, r, "steps")
                     /\ ValueKind(raw, r) = "block_sequence"} :
                  m \in JobMatches(raw, job_name)})

\* Node::children of the block sequence under the pair on line r: its items
\* and, being extras of the grammar, the comments between two items.
Children(raw, r) ==
    LET items == SeqItems(raw, r)
        between == {k \in Min(items)..Max(items) :
                      /\ raw[k].cmt
                      /\ Min({j \in (k + 1)..Len(raw) : ~raw[j].cmt}) \in items}
    IN Sorted(items \cup between)

\* The Feature of the node from line i, column c, to line j.
Feature(raw, i, c, j) ==
    [tag |-> "Ok",
     location |-> [start_line |-> i, start_col |-> c, end_line |-> j],
     feature |-> Text(raw, i, c, j)]

Panic(msg) == [tag |-> "panic", msg |-> msg]
QueryFailure == "horrific, embarassing tree-sitter query failure"

\* The node a child line of a block sequence stands for: an item or a comment.
ChildFeature(raw, i) ==
    IF raw[i].cmt THEN Feature(raw, i, raw[i].ind, i)
    ELSE Feature(raw, i, raw[i].ind, Extent(raw, i, raw[i].ind))

\* The capture @full_job of a match: the whole pair of the job.
FullJob(raw, q) == Feature(raw, q, KeyCol(raw[q]), Extent(raw, q, KeyCol(raw[q])))

\* The capture @job_value of a match: the block mapping that is its value.
JobValue(raw, q) ==
    Feature(raw, Min(Inner(raw, q)), KeyCol(raw[Min(Inner(raw, q))]),
            Extent(raw, q, KeyCol(raw[q])))

\* Query::capture_index_for_name: the position (from 0) of the name among
\* the capture names of the query, which are in the order the query's text
\* first uses them.
capture_index_for_name(names, name) ==
    (CHOOSE n \in 1..Len(names) : names[n] = name) - 1

\* The capture names of the two queries, in the order of the query text.
EntireJobCaptures == <<"jobs_key", "job_name", "job_value", "full_job">>
AllStepsCaptures == <<"jobs_key", "job_name", "steps_key", "steps">>

\* QueryMatch::captures: the captures of one match, as a list.  The code
\* takes the element at the capture's index.  tree-sitter decides the order
\* of the list, not this code: by capture index, or in the order in which
\* the nodes of the pattern are matched, a node before the nodes inside it.
\* In ALL_STEPS_FROM_JOB the two orders are the same.
CaptureLists(names) ==
    IF names = EntireJobCaptures
    THEN {names, <<"jobs_key", "full_job", "job_name", "job_value">>}
    ELSE {names}

\* The node of the capture `name` of the match of ENTIRE_JOB at the job pair q.
Captured(raw, q, name) ==
    IF name = "full_job" THEN FullJob(raw, q) ELSE JobValue(raw, q)

ConcretizeJobLastGroup(workflow, location) ==
    LET raw == workflow.raw
        job == Unwrap(location.job)
        groups == ENTIRE_JOB(raw, job.id)
        capture_index == capture_index_for_name(EntireJobCaptures, "full_job")
    IN IF groups = <<>> THEN {Panic(QueryFailure)}
       ELSE {Captured(raw, groups[Len(groups)], captures[capture_index + 1]) :
                captures \in CaptureLists(EntireJobCaptures)}

\* Locator::concretize for a location with a job and no step: the outcomes.
ConcretizeJob(workflow, location) ==
    LET raw == workflow.raw
        job == Unwrap(location.job)
        groups == ENTIRE_JOB(raw, job.id)
        capture_index == capture_index_for_name(EntireJobCaptures, "full_job")
    IN IF groups = <<>> THEN {Panic(QueryFailure)}
       ELSE {Captured(raw, groups[1], captures[capture_index + 1]) :
                captures \in CaptureLists(EntireJobCaptures)}

ConcretizeStepUniqueMatch(workflow, location) ==
    LET raw == workflow.raw
        job == Unwrap(location.job)
        groups == ALL_STEPS_FROM_JOB(raw, job.id)
    IN IF Len(groups) # 1 THEN {Panic(QueryFailure)}
       ELSE LET children == Children(raw, groups[1])
            IN IF Unwrap(job.step) >= Len(children)
               THEN {Panic("index out of bounds")}
               ELSE {ChildFeature(raw, children[Unwrap(job.step) + 1])}

\* Locator::concretize for a location with a job and a step: the outcomes.
\* The capture taken is @steps, last in the list in either order.
ConcretizeStep(workflow, location) ==
    LET raw == workflow.raw
        job == Unwrap(location.job)
        groups == ALL_STEPS_FROM_JOB(raw, job.id)
    IN IF groups = <<>> THEN {Panic(QueryFailure)}
       ELSE LET children == Children(raw, groups[1])
            IN IF Unwrap(job.step) >= Len(children)
               THEN {Panic("index out of bounds")}
               ELSE {ChildFeature(raw, children[Unwrap(job.step) + 1])}

\* Locator::concretize: the outcomes of a call.
concretize(workflow, location) ==
    IF IsSome(location.job)
    THEN IF IsSome(Unwrap(location.job).step)
         THEN ConcretizeStep(workflow, location)
         ELSE ConcretizeJob(workflow, location)
    ELSE {Panic("not yet implemented")}

\* The WorkflowLocations of a workflow: the workflow, its jobs, their steps.
Locations(workflow) ==
    {[job |-> None]}
    \cup {[job |-> Some([id |-> jobs(workflow)[n].id, step |-> None])] :
            n \in 1..Len(jobs(workflow))}
    \cup UNION {{StepLocation(jobs(workflow)[n], k) :
                   k \in 1..Len(jobs(workflow)[n].steps)} :
                n \in 1..Len(jobs(workflow))}

\* ------------------------------------------------- parsing a text as YAML

\* A parsed value is the set of its leaves, each <<path, scalar>>; a path
\* element is a mapping key or a sequence index.
Key(k) == [k |-> k, i |-> -1]
Index(i) == [k |-> "", i |-> i]

\* Position (from 0) of the sequence item on line i within its sequence.
ItemIndex(lines, i) ==
    Cardinality({k \in 1..(i - 1) :
        /\ ~lines[k].cmt /\ lines[k].dash /\ lines[k].ind = lines[i].ind
        /\ \A m \in k..i : lines[m].cmt \/ lines[m].ind >= lines[i].ind})

RECURSIVE PathOf(_, _), ContainerPath(_, _, _)
\* Path of the collection that holds the entry at column c of line i.
ContainerPath(lines, i, c) ==
    IF lines[i].dash /\ c = lines[i].ind + 2
    THEN ContainerPath(lines, i, lines[i].ind) \o <<Index(ItemIndex(lines, i))>>
    ELSE LET P == {j \in 1..(i - 1) : ~lines[j].cmt /\ lines[j].ind < c}
         IN IF P = {} THEN <<>>
            ELSE IF lines[Max(P)].dash /\ c <= lines[Max(P)].ind + 2
            THEN ContainerPath(lines, Max(P), lines[Max(P)].ind)
                 \o <<Index(ItemIndex(lines, Max(P)))>>
            ELSE PathOf(lines, Max(P))
\* Path of the value of the pair on line i.
PathOf(lines, i) ==
    ContainerPath(lines, i, KeyCol(lines[i])) \o <<Key(lines[i].key)>>

\* The value a text parses to.
Parse(lines) ==
    {<<PathOf(lines, i), lines[i].val>> :
        i \in {j \in 1..Len(lines) : ~lines[j].cmt /\ lines[j].val # <<>>}}

\* The value v nested under the mapping key k.
Under(k, v) == {<<<<Key(k)>> \o leaf[1], leaf[2]>> : leaf \in v}

\* The definition of the job an entry of the jobs mapping on line q gives.
JobDefinition(raw, q) ==
    Parse(SubSeq(raw, q + 1, Extent(raw, q, KeyCol(raw[q]))))

\* ---------------------------------------------------------- the state machine

VARIABLES
    workflow,   \* the workflow under audit: its raw text
    remote,     \* the remote repository and advisory source
    config,     \* AuditConfig: offline, gh_token
    instance,   \* result of KnownVulnerableActions::new, once called
    status,     \* of the audit pass: idle, running, ok, err
    jobIdx,     \* audit: position in workflow.jobs()
    stepIdx,    \* audit: position in job.steps(); 0 before the job is entered
    findings,   \* audit: the local list of findings
    ret,        \* audit: the value returned, once it returned
    trace,      \* one entry per step the pass visited, with the remote calls
    feature     \* the last location concretized and the result

vars == <<workflow, remote, config, instance, status, jobIdx, stepIdx,
          findings, ret, trace, feature>>

GoodConfig == [offline |-> FALSE, gh_token |-> Some("t")]
Configs == [offline : BOOLEAN, gh_token : {None, Some("t")}]

\* Every audit workflow against every remote; the workflows whose job `test`
\* has a single step against every answer of the advisory source; the
\* locator workflows under every configuration.
Scenarios ==
    (AuditWorkflows \X Remotes \X {GoodConfig})
    \cup ({w \in AuditWorkflows :
             \E n \in 1..Len(jobs(w)) :
                jobs(w)[n].id = "test" /\ Len(jobs(w)[n].steps) = 1}
          \X {RemoteTagged(a) : a \in AdvLists} \X {GoodConfig})
    \cup (LocWorkflows \X {RemoteTagged(Window(1, 1))} \X Configs)

Init ==
    /\ \E sc \in Scenarios :
        /\ workflow = sc[1]
        /\ remote = sc[2]
        /\ config = sc[3]
    /\ instance = [tag |-> "none"]
    /\ status = "idle"
    /\ jobIdx = 0
    /\ stepIdx = 0
    /\ findings = <<>>
    /\ ret = [tag |-> "none"]
    /\ trace = <<>>
    /\ feature = [tag |-> "none"]

\* The audit is constructed from the configuration.
New ==
    /\ instance.tag = "none"
    /\ instance' = new(config)
    /\ UNCHANGED <<workflow, remote, config, status, jobIdx, stepIdx,
                   findings, ret, trace, feature>>

FindingLowConfidence(job, k, pair) ==
    [ident |-> "known-vulnerable-actions", confidence |-> "Low",
     severity |-> pair[1],
     location |-> StepLocation(job, k), keys |-> <<"uses">>,
     annotation |-> pair[2]]

\* The Finding built for one (severity, id) pair of step k of the job.
Finding(job, k, pair) ==
    [ident |-> "known-vulnerable-actions", confidence |-> "High",
     severity |-> pair[1],
     location |-> StepLocation(job, k), keys |-> <<"uses">>,
     annotation |-> pair[2]]

EntrySwallowingErr(fs, job, k, res) ==
    [status |-> "running",
     findings |-> fs \o [n \in 1..Len(res.value) |-> Finding(job, k, res.value[n])],
     ret |-> [tag |-> "none"]]

\* The body of the loop over steps once the resolver returned: `?` returns
\* the error, dropping the findings; otherwise one finding per pair is pushed.
Entry(fs, job, k, res) ==
    IF res.tag = "Err"
    THEN [status |-> "err", findings |-> <<>>, ret |-> [tag |-> "Err"]]
    ELSE [status |-> "running",
          findings |-> fs \o [n \in 1..Len(res.value) |->
                                 Finding(job, k, res.value[n])],
          ret |-> [tag |-> "none"]]

Visit(job, k, outcome, uses, res) ==
    [job |-> job.id, step |-> k - 1, outcome |-> outcome, uses |-> uses,
     res |-> res]

\* audit is called on the constructed instance.
AuditBegin ==
    /\ instance.tag = "Ok"
    /\ status = "idle"
    /\ status' = "running"
    /\ findings' = <<>>
    /\ jobIdx' = 1
    /\ stepIdx' = 0
    /\ UNCHANGED <<workflow, remote, config, instance, ret, trace, feature>>

\* The head of the loop over jobs: a job that is no NormalJob is skipped.
AuditJob ==
    /\ status = "running"
    /\ stepIdx = 0
    /\ jobIdx <= Len(jobs(workflow))
    /\ IF jobs(workflow)[jobIdx].kind = "NormalJob"
       THEN stepIdx' = 1 /\ jobIdx' = jobIdx
       ELSE stepIdx' = 0 /\ jobIdx' = jobIdx + 1
    /\ UNCHANGED <<workflow, remote, config, instance, status, findings, ret,
                   trace, feature>>

\* One iteration of the loop over the steps of the job.
AuditStep ==
    /\ status = "running"
    /\ stepIdx >= 1
    /\ jobIdx <= Len(jobs(workflow))
    /\ stepIdx <= Len(jobs(workflow)[jobIdx].steps)
    /\ LET job == jobs(workflow)[jobIdx]
           step == job.steps[stepIdx]
           uses == IF step.body.kind = "Uses" THEN from_step(step.body.uses)
                   ELSE None
       IN IF step.body.kind # "Uses" \/ uses = None
          THEN /\ trace' = Append(trace,
                      Visit(job, stepIdx,
                            IF step.body.kind # "Uses" THEN "not_uses"
                            ELSE "unparsed",
                            None, Ok(<<>>, <<>>, <<>>)))
               /\ stepIdx' = stepIdx + 1
               /\ UNCHANGED <<status, findings, ret>>
          ELSE \E failAt \in FailPoints :
                 LET res == action_known_vulnerabilities(remote, Unwrap(uses),
                                                         failAt)
                     e == Entry(findings, job, stepIdx, res)
                 IN /\ trace' = Append(trace,
                           Visit(job, stepIdx, "resolved", uses, res))
                    /\ status' = e.status
                    /\ findings' = e.findings
                    /\ ret' = e.ret
                    /\ stepIdx' = IF e.status = "running" THEN stepIdx + 1
                                  ELSE stepIdx
    /\ UNCHANGED <<workflow, remote, config, instance, jobIdx, feature>>

\* The steps of the job are exhausted: on to the next job.
AuditNextJob ==
    /\ status = "running"
    /\ stepIdx >= 1
    /\ jobIdx <= Len(jobs(workflow))
    /\ stepIdx > Len(jobs(workflow)[jobIdx].steps)
    /\ jobIdx' = jobIdx + 1
    /\ stepIdx' = 0
    /\ UNCHANGED <<workflow, remote, config, instance, status, findings, ret,
                   trace, feature>>

\* The jobs are exhausted: audit returns Ok(findings).
AuditReturn ==
    /\ status = "running"
    /\ jobIdx > Len(jobs(workflow))
    /\ status' = "ok"
    /\ ret' = [tag |-> "Ok", findings |-> findings]
    /\ UNCHANGED <<workflow, remote, config, instance, jobIdx, stepIdx,
                   findings, trace, feature>>

\* The reporting layer concretizes a location of the workflow, after the
\* audit returned or could not be constructed.  The Locator keeps no state:
\* one call per behaviour shows all a call can do.
Concretize ==
    /\ status \in {"ok", "err"} \/ instance.tag = "Err"
    /\ feature.tag = "none"
    /\ \E location \in Locations(workflow) :
         \E result \in concretize(workflow, location) :
            feature' = [tag |-> "done", location |-> location,
                        result |-> result]
    /\ UNCHANGED <<workflow, remote, config, instance, status, jobIdx, stepIdx,
                   findings, ret, trace>>

Next ==
    \/ New
    \/ AuditBegin
    \/ AuditJob
    \/ AuditStep
    \/ AuditNextJob
    \/ AuditReturn
    \/ Concretize

Spec == Init /\ [][Next]_vars

\* ------------------------------------------------------------------ claims

Resolved(e) == e.outcome = "resolved"
GitRef(e) == Unwrap(e.uses).git_ref
Symbolic(e) ==
    Resolved(e) /\ IsSome(GitRef(e)) /\ ~ref_is_commit(Unwrap(e.uses))
Pinned(e) == Resolved(e) /\ IsSome(GitRef(e)) /\ ref_is_commit(Unwrap(e.uses))
Ops(calls) == [n \in 1..Len(calls) |-> calls[n].op]
Entries == {trace[n] : n \in 1..Len(trace)}
At(e) == [job |-> Some([id |-> e.job, step |-> Some(e.step)])]

\* C1: a Uses with no git ref gives Ok(empty) with no remote call of any
\* kind, and no finding of the pass is located at such a step.
C1_NoRefNoCallNoFinding ==
    \A e \in Entries :
        Resolved(e) /\ GitRef(e) = None =>
            /\ e.res.tag = "Ok"
            /\ e.res.value = <<>>
            /\ e.res.calls = <<>>
            /\ \A m \in 1..Len(findings) : findings[m].location # At(e)
            /\ ret.tag = "Ok" =>
                 \A m \in 1..Len(ret.findings) : ret.findings[m].location # At(e)

\* A pass returned findings although it visited a step with no ref.
C1_Witness ==
    /\ status = "ok"
    /\ ret.findings # <<>>
    /\ \E e \in Entries : Resolved(e) /\ GitRef(e) = None

\* C2: for a symbolic ref the remote resolves, the calls are ref-to-commit,
\* then the tag lookup for that commit, then the advisory query, in that
\* order; the version queried is the longest tag name at the commit, or the
\* ref verbatim when the commit has no tag.
C2_SymbolicRefChain ==
    \A e \in Entries : \A r \in remote.refs :
        Symbolic(e) /\ r.name = Unwrap(GitRef(e)) =>
            LET calls == e.res.calls
                T == {t \in remote.tags : t.sha = r.sha}
            IN /\ Len(calls) \in 1..3
               /\ Ops(calls) = SubSeq(<<"commit_for_ref", "longest_tag_for_commit",
                                        "gha_advisories">>, 1, Len(calls))
               /\ calls[1].arg = r.name
               /\ calls[1].ok => Len(calls) >= 2 /\ calls[2].arg = r.sha
               /\ Len(calls) >= 2 /\ calls[2].ok =>
                    /\ Len(calls) = 3
                    /\ T = {} => calls[3].arg = r.name
                    /\ T # {} =>
                         /\ calls[3].arg \in {t.name : t \in T}
                         /\ \A t \in T : Len(t.name) <= Len(calls[3].arg)

\* Ref v2, tags v2 and v2.0.1 at its commit: v2.0.1 was queried.
C2_Witness ==
    \E e \in Entries :
        /\ Symbolic(e)
        /\ GitRef(e) = Some(RefV2)
        /\ {t.name : t \in remote.tags} = {RefV2, TagV201}
        /\ e.res.tag = "Ok"
        /\ e.res.calls[3].arg = TagV201

\* The steps of the normal jobs of the workflow, counted.
RECURSIVE TotalSteps(_, _)
TotalSteps(js, n) ==
    IF n > Len(js) THEN 0
    ELSE (IF js[n].kind = "NormalJob" THEN Len(js[n].steps) ELSE 0)
         + TotalSteps(js, n + 1)

\* A step visited with a symbolic ref the remote does not have, or with a
\* commit no tag points at, the remote having answered.
Gap(e) ==
    /\ e.res.calls # <<>>
    /\ e.res.calls[1].ok
    /\ \/ Symbolic(e) /\ \A r \in remote.refs : r.name # Unwrap(GitRef(e))
       \/ Pinned(e) /\ \A t \in remote.tags : t.sha # Unwrap(GitRef(e))

\* C3: absence of data is no error: the resolver returns Ok(empty) without an
\* advisory query, the pass goes on, and a pass that returns has visited
\* every step and returns the findings of the other steps.
C3_AbsenceIsNotAnError ==
    \A e \in Entries :
        Gap(e) =>
            /\ e.res.tag = "Ok"
            /\ e.res.value = <<>>
            /\ Ops(e.res.calls) \in {<<"commit_for_ref">>, <<"longest_tag_for_commit">>}
            /\ e = trace[Len(trace)] => status \in {"running", "ok"}
            /\ status = "ok" =>
                 /\ Len(trace) = TotalSteps(jobs(workflow), 1)
                 /\ \A o \in Entries : \A k \in 1..Len(o.res.value) :
                      \E m \in 1..Len(ret.findings) :
                          /\ ret.findings[m].location = At(o)
                          /\ ret.findings[m].annotation = o.res.value[k][2]

\* A pass met a gap and then returned a finding of a later step.
C3_Witness ==
    /\ status = "ok"
    /\ \E n \in 1..Len(trace) : \E m \in (n + 1)..Len(trace) :
         Gap(trace[n]) /\ trace[m].res.value # <<>>
    /\ ret.findings # <<>>

\* C4: a failed remote call aborts the pass: audit returns Err and no
\* finding; the failed call is the last call made, made once.
C4_TransportFailureAborts ==
    /\ \A n \in 1..Len(trace) : \A k \in 1..Len(trace[n].res.calls) :
         ~trace[n].res.calls[k].ok =>
            /\ n = Len(trace)
            /\ k = Len(trace[n].res.calls)
            /\ trace[n].res.tag = "Err"
            /\ status = "err"
    /\ status = "err" =>
         /\ ret = [tag |-> "Err"]
         /\ findings = <<>>
         /\ trace # <<>>
         /\ trace[Len(trace)].res.tag = "Err"
         /\ ~trace[Len(trace)].res.calls[Len(trace[Len(trace)].res.calls)].ok

\* A pass failed after an earlier step had given findings, with steps left.
C4_Witness ==
    /\ status = "err"
    /\ ret = [tag |-> "Err"]
    /\ \E n \in 1..(Len(trace) - 1) : trace[n].res.value # <<>>
    /\ Len(trace) < TotalSteps(jobs(workflow), 1)

\* The findings a pass is to return: for each normal job in order, for each
\* of its steps in document order that is a parsable action invocation, one
\* per (severity, id) pair, located at the step's index in the job's steps.
RECURSIVE ExpectedOfSteps(_, _), ExpectedOfJobs(_)
ExpectedOfSteps(job, k) ==
    IF k > Len(job.steps) THEN <<>>
    ELSE LET body == job.steps[k].body
             uses == IF body.kind = "Uses" THEN from_step(body.uses) ELSE None
             pairs == IF uses = None THEN <<>>
                      ELSE action_known_vulnerabilities(remote, Unwrap(uses), 0).value
         IN [n \in 1..Len(pairs) |->
                [ident |-> "known-vulnerable-actions", confidence |-> "High",
                 severity |-> pairs[n][1],
                 location |-> [job |-> Some([id |-> job.id, step |-> Some(k - 1)])],
                 keys |-> <<"uses">>, annotation |-> pairs[n][2]]]
            \o ExpectedOfSteps(job, k + 1)
ExpectedOfJobs(n) ==
    IF n > Len(jobs(workflow)) THEN <<>>
    ELSE (IF jobs(workflow)[n].kind = "NormalJob"
          THEN ExpectedOfSteps(jobs(workflow)[n], 1) ELSE <<>>)
         \o ExpectedOfJobs(n + 1)

\* C5: a pass that succeeds returns exactly one finding per pair of each
\* action invocation of each normal job, with confidence High, the mapped
\* severity, the advisory id as annotation and the step's index in the
\* unfiltered step list; steps that are no action invocation or do not parse
\* cost no remote call, and only steps of normal jobs are visited.
C5_ExactlyTheFindings ==
    /\ status = "ok" => ret = [tag |-> "Ok", findings |-> ExpectedOfJobs(1)]
    /\ \A e \in Entries :
         /\ ~Resolved(e) => e.res.calls = <<>> /\ e.res.value = <<>>
         /\ \E n \in 1..Len(jobs(workflow)) :
              /\ jobs(workflow)[n].id = e.job
              /\ jobs(workflow)[n].kind = "NormalJob"
    /\ \A m \in 1..Len(findings) :
         \E n \in 1..Len(jobs(workflow)) :
            LET loc == Unwrap(findings[m].location.job)
            IN /\ jobs(workflow)[n].id = loc.id
               /\ jobs(workflow)[n].steps[Unwrap(loc.step) + 1].body.kind = "Uses"

\* After a reusable workflow call job, job `test` with a run step and then
\* an action pinned to v2 that has one advisory of severity high.
C5_Witness ==
    /\ status = "ok"
    /\ Len(jobs(workflow)) = 2
    /\ jobs(workflow)[1].kind = "ReusableWorkflowCallJob"
    /\ jobs(workflow)[2].steps[1].body.kind = "Run"
    /\ ret.findings =
         <<[ident |-> "known-vulnerable-actions", confidence |-> "High",
            severity |-> "High",
            location |-> [job |-> Some([id |-> "test", step |-> Some(1)])],
            keys |-> <<"uses">>, annotation |-> "GHSA-1"]>>

\* C6: the resolver returns one pair per advisory received, in the same
\* order, the severity mapped low -> Unknown, medium -> Medium, high -> High,
\* critical -> High, anything else -> Unknown.
C6_SeverityMapping ==
    \A e \in Entries :
        e.res.tag = "Ok" =>
            /\ Len(e.res.value) = Len(e.res.vulns)
            /\ \A k \in 1..Len(e.res.vulns) :
                 /\ e.res.value[k][2] = e.res.vulns[k].ghsa_id
                 /\ e.res.vulns[k].severity = "low" => e.res.value[k][1] = "Unknown"
                 /\ e.res.vulns[k].severity = "medium" => e.res.value[k][1] = "Medium"
                 /\ e.res.vulns[k].severity = "high" => e.res.value[k][1] = "High"
                 /\ e.res.vulns[k].severity = "critical" => e.res.value[k][1] = "High"
                 /\ e.res.vulns[k].severity \notin {"low", "medium", "high", "critical"}
                      => e.res.value[k][1] = "Unknown"

\* The advisory source answered low then critical.
C6_Witness ==
    \E e \in Entries :
        /\ e.res.vulns = <<AdvisoryPool[2], AdvisoryPool[3]>>
        /\ e.res.value = <<<<"Unknown", "GHSA-2">>, <<"High", "GHSA-3">>>>

\* C9: construction fails, with no instance and no client, when the
\* configuration is offline or has no token; a pass only ever runs on an
\* instance built online with a token.
C9_ConstructionPreconditions ==
    /\ instance.tag # "none" /\ (config.offline \/ config.gh_token = None) =>
         /\ instance.tag = "Err"
         /\ "client" \notin DOMAIN instance
    /\ instance.tag = "Ok" =>
         /\ ~config.offline
         /\ IsSome(config.gh_token)
         /\ instance.client.token = Unwrap(config.gh_token)
    /\ status # "idle" =>
         instance.tag = "Ok" /\ ~instance.config.offline
                             /\ IsSome(instance.config.gh_token)

\* Construction was refused for the lack of a token alone.
C9_Witness ==
    /\ instance.tag = "Err"
    /\ ~config.offline
    /\ config.gh_token = None
    /\ status = "idle"

\* The location last concretized names a job and a step / a job alone.
Concretized == feature.tag = "done" /\ IsSome(feature.location.job)
StepLocated == Concretized /\ IsSome(Unwrap(feature.location.job).step)
JobLocated == Concretized /\ Unwrap(feature.location.job).step = None
LocatedId == Unwrap(feature.location.job).id
LocatedStep == Unwrap(Unwrap(feature.location.job).step)

\* The entries of the jobs mapping that define the job id.
EntriesOf(raw, id) == {j \in JobEntries(raw) : raw[j].key = id}
\* The job id is defined once, under a plain key.
PlainOnce(raw, id) ==
    Cardinality(EntriesOf(raw, id)) = 1 /\ \A j \in EntriesOf(raw, id) : ~raw[j].quoted

\* The text is a run of whole lines of the raw text, from some column of
\* its first line on.
IsSubstring(text, raw) ==
    \E i \in 1..Len(raw) : \E c \in {raw[i].ind, KeyCol(raw[i])} :
        /\ i + Len(text) - 1 <= Len(raw)
        /\ text = Text(raw, i, c, i + Len(text) - 1)

\* Source text of the step the audit visits at index k of the job: the
\* sequence item that is its (k+1)-th step.
StepText(wf, id, k) ==
    LET job == CHOOSE j \in {jobs(wf)[n] : n \in 1..Len(jobs(wf))} : j.id = id
        line == job.steps[k + 1].line
    IN Text(wf.raw, line, wf.raw[line].ind, Extent(wf.raw, line, wf.raw[line].ind))

\* The location last concretized is that of a finding the pass returned.
OfAFinding ==
    /\ status = "ok"
    /\ \E m \in 1..Len(ret.findings) : ret.findings[m].location = feature.location

\* C7: for a location {job id, step index i} concretize returns the i-th
\* step of the job in document order, the step the audit visited at index
\* i: its text, a contiguous part of the raw text.  (Stated for the location
\* of a finding of the pass, in a job whose id is defined once under a plain
\* key.)
C7_StepIndexDenotesStep ==
    StepLocated /\ OfAFinding /\ PlainOnce(workflow.raw, LocatedId) =>
        /\ feature.result.tag = "Ok"
        /\ feature.result.feature = StepText(workflow, LocatedId, LocatedStep)
        /\ IsSubstring(feature.result.feature, workflow.raw)

\* C8, as claimed: the text of a job-only location parses to a mapping equal
\* to the job's definition.
C8_JobTextParsesToDefinition ==
    JobLocated /\ feature.result.tag = "Ok" =>
        Parse(feature.result.feature)
            = JobDefinition(workflow.raw, JobLine(workflow.raw, LocatedId))

\* C8, amended: concretizing a job-only location returns a node of the first
\* entry of the jobs mapping with a plain key equal to the job id, the one at
\* the capture index of @full_job: the whole entry, key and block value, or
\* (captures listed in match order) the block value alone.  Its text is a
\* contiguous part of the raw text that ends where the job's block ends.  The
\* whole entry parses to the one-entry mapping from the job id to the entry's
\* definition; the block value parses to the definition once its first line
\* is put back at the column the node starts at.  The entry's definition is
\* the job's when the id is defined once.
C8_JobTextIsOfFirstEntry ==
    JobLocated /\ feature.result.tag = "Ok" =>
        LET raw == workflow.raw
            q == Min({j \in EntriesOf(raw, LocatedId) : ~raw[j].quoted})
            r == feature.result
        IN /\ IsSubstring(r.feature, raw)
           /\ r.location.end_line = Extent(raw, q, KeyCol(raw[q]))
           /\ \/ /\ r.location.start_line = q
                 /\ Parse(r.feature) = Under(LocatedId, JobDefinition(raw, q))
              \/ /\ r.location.start_line = Min(Inner(raw, q))
                 /\ Parse([r.feature EXCEPT ![1].ind = r.location.start_col])
                      = JobDefinition(raw, q)
           /\ PlainOnce(raw, LocatedId) => q = JobLine(raw, LocatedId)

\* A job-only location of a job with steps, its id defined once, was
\* concretized.
C8_Witness ==
    /\ JobLocated
    /\ feature.result.tag = "Ok"
    /\ PlainOnce(workflow.raw, LocatedId)
    /\ Len(feature.result.feature) >= 3

\* The number of capture groups the query of the location matches.
Groups ==
    IF StepLocated THEN ALL_STEPS_FROM_JOB(workflow.raw, LocatedId)
    ELSE ENTIRE_JOB(workflow.raw, LocatedId)

\* C10, as claimed: when the query matches zero or more than one capture
\* group, concretize ends in a fault.
C10_NotOneMatchFaults ==
    Concretized /\ Len(Groups) # 1 => feature.result.tag = "panic"

\* C10, amended: with zero matches concretize ends in the query-failure
\* fault; with one or more it goes on with the first match in document order
\* and never looks at the others: a job-only location gives that match's
\* entry, a step location the child of that match's sequence at the step
\* index, or an index fault when the sequence has no such child.
C10_ZeroFaultsElseFirstMatch ==
    Concretized =>
        /\ Groups = <<>> => feature.result = Panic(QueryFailure)
        /\ Groups # <<>> /\ JobLocated =>
             feature.result \in {FullJob(workflow.raw, Groups[1]),
                                 JobValue(workflow.raw, Groups[1])}
        /\ Groups # <<>> /\ StepLocated =>
             LET children == Children(workflow.raw, Groups[1])
             IN IF LocatedStep < Len(children)
                THEN /\ feature.result.tag = "Ok"
                     /\ feature.result.location.start_line
                          = children[LocatedStep + 1]
                ELSE feature.result = Panic("index out of bounds")

\* Two groups matched and the first one was used.
C10_Witness ==
    /\ StepLocated
    /\ Len(Groups) = 2
    /\ feature.result.tag = "Ok"
    /\ feature.result.location.start_line < Groups[2]

====
